---- MODULE Spec2Model ----
(***************************************************************************)
(* Model of pace.fv3core.stencils.fv_dynamics.DynamicalCore: construction  *)
(* (__init__) and the per-timestep entry point step_dynamics with          *)
(* _compute, compute_preamble, _dyn, post_remap and wrapup.                *)
(*                                                                         *)
(* The external collaborators (acoustic stepper, tracer advection, remap,  *)
(* hyperdiffusion, negative-tracer adjuster, cube-to-latlon, halo updater) *)
(* are atomic stages: an invocation is an entry of `trace` and a set of    *)
(* fields added to `written`.                                              *)
(***************************************************************************)
EXTENDS Integers, Sequences, FiniteSets, TLC

\* ------------------------------------------------------------------ bounds
MaxKSplit == 2      \* k_split ranges over 0..MaxKSplit
MaxSteps  == 2      \* step_dynamics calls per constructed core
MaxNpz    == 5      \* vertical levels range over 4..MaxNpz
MaxInterfaces == 2  \* init_pfull on its own: ak, bk have 2..MaxInterfaces entries
MaxRuns   == 2      \* pt_adjust on its own: applied at most MaxRuns times

\* --------------------------------------------------------------- constants
NQ == 8             \* fv_dynamics.py:37
MinRemapLevels == 4 \* fv_dynamics.py:437

VARIABLES
    config,               \* DynamicalCoreConfig handed to __init__ (immutable)
    checkpointer,         \* the checkpointer argument: "none" or "sink"
    pc,                   \* position of the program
    built,                \* objects created by __init__, in creation order
    call_checkpointer,    \* self.call_checkpointer
    self_checkpointer,    \* self.checkpointer: "unset", "null" or "sink"
    acoustic_checkpointer,\* checkpointer handed to AcousticDynamics
    steps,                \* number of step_dynamics calls started
    sink,                 \* tags the sink received during the current call
    trace,                \* methods entered and stages invoked in the call
    written,              \* fields written by stages during the current call
    k_split,              \* loop variable of _compute (0-based)
    n_map,                \* n_map of the current iteration
    last_step,            \* local last_step of _compute
    lastStepLog,          \* value of last_step in each iteration of the call
    outcome,              \* of the current/last call: none, returned, raised
    error,                \* message of the error that reached the caller
    da_min,               \* self._da_min (0 before it is set)
    timestep,             \* self._timestep in seconds (0 before it is set)
    tracers,              \* state object whose fields self.tracers aliases
    halo_state,           \* state object self._omega_halo_updater is bound to
    state,                \* state object passed to the current step_dynamics
    lastWritten,          \* fields written by the most recent stage(s)
    calls,                \* arguments of the stage invocations of the call
    delp,                 \* per state object: version of its delp field
    _dp1,                 \* self._dp1: where its contents come from
    delp_start,           \* state.delp when the current iteration began
    dp1_writers,          \* stencils the orchestrator had write dp1, in order
    dp1_log,              \* dp1 as it stood at each stage of _dyn and remap
    pf,                   \* init_pfull stencil run on its own: inputs, outputs
    pta                   \* pt_adjust stencil run on its own: inputs, output

vars == <<config, checkpointer, pc, built, call_checkpointer,
          self_checkpointer, acoustic_checkpointer, steps, sink, trace,
          written, k_split, n_map, last_step, lastStepLog, outcome, error,
          da_min, timestep, tracers, halo_state, state, lastWritten, calls,
          delp, _dp1, delp_start, dp1_writers, dp1_log, pf, pta>>

cfgVars  == <<config, checkpointer, pf, pta>>
initVars == <<built, call_checkpointer, self_checkpointer,
              acoustic_checkpointer, da_min, timestep, tracers, halo_state>>
loopVars == <<k_split, n_map, last_step, lastStepLog>>
massVars == <<delp, _dp1, delp_start, dp1_writers, dp1_log>>

\* ---------------------------------------------------------- configuration
ConfigSpace ==
    [moist_phys : BOOLEAN, nwat : {5, 6}, inline_q : BOOLEAN,
     hydrostatic : BOOLEAN, consv_te : {0, 1}, rf_fast : BOOLEAN,
     tau : {0, 1}, adiabatic : BOOLEAN, kord_tm : {0, 1},
     z_tracer : BOOLEAN, nf_omega : {0, 1},
     k_split : 0..MaxKSplit, npz : MinRemapLevels..MaxNpz]

\* ------------------------------------------------------------------ fields
WaterSpecies == {"qvapor", "qliquid", "qrain", "qsnow", "qice", "qgraupel"}

StateFields ==
    WaterSpecies \cup
    {"qcld", "u", "v", "w", "ua", "va", "uc", "vc", "delp", "delz", "pt",
     "pkz", "pk", "pe", "peln", "ps", "phis", "q_con", "omga",
     "mfxd", "mfyd", "cxd", "cyd"}

Temporaries == {"te_2d", "te0_2d", "wsd", "dp1", "cvm"}

\* fields each stage may write: its output arguments where the source
\* documents them, otherwise the fields it is handed or documented to produce
fv_setup_writes == {"cvm", "cappa", "dp1"}
pt_adjust_writes == {"pt"}
copy_stencil_writes == {"dp1"}
acoustic_dynamics_writes == StateFields
tracer_advection_writes == WaterSpecies \cup {"qcld"}
lagrangian_to_eulerian_writes ==
    WaterSpecies \cup
    {"qcld", "pt", "delp", "delz", "peln", "u", "v", "w", "ua", "va",
     "cappa", "q_con", "pkz", "pk", "pe", "phis", "ps", "omga", "te0_2d",
     "wsd", "dp1"}
set_omega_writes == {"omga"}
omega_halo_writes == {"omga"}
hyperdiffusion_writes == {"omga"}
adjust_tracer_writes == WaterSpecies
cubed_to_latlon_writes == {"ua", "va"}

\* ------------------------------------------------------------ construction
\* objects created before the configuration asserts
PreAssertObjects == <<"sizer", "quantity_factory">>

\* objects created between the asserts and the inline_q check
BuildObjects ==
    <<"tracer_transport", "tracers", "temporaries", "tracer_advection",
      "pfull_stencil", "pfull_stencil_run", "fv_setup_stencil",
      "pt_adjust_stencil", "set_omega_stencil", "copy_stencil",
      "acoustic_dynamics", "hyperdiffusion", "cubed_to_latlon">>

\* objects created after the inline_q check
FinishObjects ==
    <<"adjust_tracer_mixing_ratio", "lagrangian_to_eulerian",
      "omega_halo_updater">>

\* state objects a caller may hand over; __init__ is given InitState
StateObjects == {"s0", "s1"}
InitState == "s0"

\* damping_coefficients.da_min and timestep.total_seconds() of __init__
DaMinValues == {1, 3}
TimestepValues == {225, 450}

RECURSIVE GCD(_, _)
GCD(a, b) == IF b = 0 THEN a ELSE GCD(b, a % b)

\* true division a / b of two integers, as a fraction in lowest terms
Quotient(a, b) == <<a \div GCD(a, b), b \div GCD(a, b)>>

\* the stencils before they have been run on their own
NoPfull == [ak |-> <<>>, bk |-> <<>>, p_ref |-> 0, ph1 |-> <<>>,
            ph2 |-> <<>>, done |-> FALSE]
NoPtAdjust == [pkz |-> 0, dp1 |-> 0, q_con |-> 0, pt |-> 0, pt_prev |-> 0,
               runs |-> 0]

\* self._dp1 as allocated by __init__: contents of no delp
NoDp1 == [from |-> "allocation", of |-> "-", v |-> 0]

\* dp1 after copy_stencil(state.delp, self._dp1): the delp of that state
\* object as it stands now
SnapshotOf(obj) == [from |-> "delp", of |-> obj, v |-> delp[obj]]

\* dp1 after a stage other than copy_stencil wrote it
WrittenBy(stage, obj) == [from |-> stage, of |-> obj, v |-> 0]

\* a stage writes state.delp: that state object's delp is a new version
NewDelp(obj) == [delp EXCEPT ![obj] = @ + 1]

\* what dp1 holds the moment a stage of the loop body is invoked
Dp1Seen(stage) ==
    [stage |-> stage, n_map |-> n_map, dp1 |-> _dp1,
     delp_start |-> delp_start, on |-> state,
     writers |-> Len(dp1_writers)]

Init ==
    /\ config \in ConfigSpace
    /\ checkpointer \in {"none", "sink"}
    /\ pc = "new"
    /\ built = <<>>
    /\ call_checkpointer = FALSE
    /\ self_checkpointer = "unset"
    /\ acoustic_checkpointer = "unset"
    /\ steps = 0
    /\ sink = <<>>
    /\ trace = <<>>
    /\ written = {}
    /\ k_split = 0
    /\ n_map = 0
    /\ last_step = FALSE
    /\ lastStepLog = <<>>
    /\ outcome = "none"
    /\ error = "none"
    /\ da_min = 0
    /\ timestep = 0
    /\ tracers = "unset"
    /\ halo_state = "unset"
    /\ state = "none"
    /\ lastWritten = {}
    /\ calls = <<>>
    /\ delp = [obj \in StateObjects |-> 0]
    /\ _dp1 = NoDp1
    /\ delp_start = 0
    /\ dp1_writers = <<>>
    /\ dp1_log = <<>>
    /\ pf = NoPfull
    /\ pta = NoPtAdjust

\* the two configuration asserts of __init__
moist_phys_assert(cfg) == cfg.moist_phys
\* (nwat_assert_at_most: faulty variant accepting fewer species)
nwat_assert_at_most(cfg) == cfg.nwat <= 6
nwat_assert(cfg) == cfg.nwat = 6

\* condition under which __init__ raises "tracer_2d not implemented"
tracer_2d_unimplemented(cfg) == ~(~cfg.inline_q /\ NQ # 0)

\* an exception leaving __init__: no DynamicalCore exists afterwards
ConstructionFails(msg) ==
    /\ pc' = "failed"
    /\ error' = msg

\* checkpointer selection, sizer and quantity factory
init_checkpointer ==
    /\ pc = "new"
    /\ call_checkpointer' = (checkpointer # "none")
    /\ self_checkpointer' = IF checkpointer = "none" THEN "null"
                            ELSE checkpointer
    /\ built' = PreAssertObjects
    /\ pc' = "init_assert"
    /\ UNCHANGED <<cfgVars, acoustic_checkpointer, da_min, timestep, tracers,
                   halo_state, steps, state, sink, trace, written,
                   lastWritten, calls, loopVars, outcome, error>>
    /\ UNCHANGED massVars

init_assert ==
    /\ pc = "init_assert"
    /\ IF ~moist_phys_assert(config)
       THEN ConstructionFails("fvsetup is only implemented for moist_phys=true")
       ELSE IF ~nwat_assert(config)
       THEN ConstructionFails("Only nwat=6 has been implemented and tested")
       ELSE pc' = "init_build" /\ error' = error
    /\ UNCHANGED <<cfgVars, initVars, steps, state, sink, trace, written,
                   lastWritten, calls, loopVars, outcome>>
    /\ UNCHANGED massVars

\* tracer map, temporaries, stencils, acoustic stepper, hyperdiffusion,
\* cube-to-latlon
init_build ==
    /\ pc = "init_build"
    /\ built' = built \o BuildObjects
    /\ acoustic_checkpointer' = checkpointer
    /\ \E d \in DaMinValues : da_min' = d
    /\ tracers' = InitState
    /\ pc' = "init_finish"
    /\ UNCHANGED <<cfgVars, call_checkpointer, self_checkpointer, timestep,
                   halo_state, steps, state, sink, trace, written,
                   lastWritten, calls, loopVars, outcome, error>>
    /\ UNCHANGED massVars

\* inline_q check, then the remaining collaborators
init_finish ==
    /\ pc = "init_finish"
    /\ IF tracer_2d_unimplemented(config)
       THEN /\ ConstructionFails("tracer_2d not implemented, turn on z_tracer")
            /\ UNCHANGED <<built, halo_state, timestep>>
       ELSE /\ built' = built \o FinishObjects
            /\ halo_state' = InitState
            /\ \E t \in TimestepValues : timestep' = t
            /\ pc' = "idle"
            /\ error' = error
    /\ UNCHANGED <<cfgVars, call_checkpointer, self_checkpointer,
                   acoustic_checkpointer, da_min, tracers, steps, state, sink,
                   trace, written, lastWritten, calls, loopVars, outcome>>
    /\ UNCHANGED massVars

\* ---------------------------------------------------------- step_dynamics
\* the sink log after _checkpoint_fvdynamics(state, tag)
\* (_checkpoint_fvdynamics_fixed_tag: faulty variant ignoring the tag)
_checkpoint_fvdynamics_fixed_tag(log, tag) ==
    IF call_checkpointer THEN Append(log, "FVDynamics-In") ELSE log
_checkpoint_fvdynamics(log, tag) ==
    IF call_checkpointer THEN Append(log, "FVDynamics-" \o tag) ELSE log

\* a stage invocation: logged, and its output fields become written
Invoke(stage, fields) ==
    /\ trace' = Append(trace, stage)
    /\ written' = written \cup fields
    /\ lastWritten' = fields

\* the arguments of a stage invocation: the state object whose fields it is
\* handed, the state object whose tracer fields it is handed ("-": none),
\* timestep (a fraction), n_map, the full timestep bdt and the damping
\* coefficient (in hundredths), 0 where the stage has no such argument
Args(stage, on) ==
    [stage |-> stage, on |-> on, tracers |-> "-", timestep |-> <<0, 1>>,
     n_map |-> 0, bdt |-> 0, coef |-> 0]

\* an exception raised inside _compute: neither _compute nor step_dynamics
\* catches it, so the call ends and the error reaches the caller
\* (Raise_through_finally: faulty variant emitting "Out" on the way out)
Raise_through_finally(msg) ==
    /\ pc' = "idle"
    /\ outcome' = "raised"
    /\ error' = msg
    /\ sink' = Append(sink, "FVDynamics-Out")
Raise(msg) ==
    /\ pc' = "idle"
    /\ outcome' = "raised"
    /\ error' = msg
    /\ sink' = sink

\* entry of step_dynamics and the "In" checkpoint
step_dynamics ==
    /\ pc = "idle"
    /\ steps < MaxSteps
    /\ steps' = steps + 1
    /\ \E s \in StateObjects : state' = s
    /\ lastWritten' = {}
    /\ calls' = <<>>
    /\ sink' = _checkpoint_fvdynamics(<<>>, "In")
    /\ trace' = <<>>
    /\ written' = {}
    /\ k_split' = 0
    /\ n_map' = 0
    /\ last_step' = FALSE
    /\ lastStepLog' = <<>>
    /\ outcome' = "none"
    /\ error' = "none"
    /\ pc' = "compute"
    /\ UNCHANGED <<cfgVars, initVars>>
    /\ dp1_writers' = <<>>
    /\ dp1_log' = <<>>
    /\ UNCHANGED <<delp, _dp1, delp_start>>

\* entry of _compute: last_step = False, then compute_preamble is called
_compute ==
    /\ pc = "compute"
    /\ last_step' = FALSE
    /\ trace' = Append(trace, "compute_preamble")
    /\ pc' = "preamble"
    /\ UNCHANGED <<cfgVars, initVars, steps, state, sink, written,
                   lastWritten, calls, k_split, n_map, lastStepLog, outcome,
                   error>>
    /\ UNCHANGED massVars

\* the four rejection conditions of compute_preamble
\* (hydrostatic_unchecked, rayleigh_super_ignores_tau: faulty variants)
hydrostatic_unchecked(cfg) == FALSE
hydrostatic_unimplemented(cfg) == cfg.hydrostatic
total_energy_unimplemented(cfg) == cfg.consv_te > 0
rayleigh_super_ignores_tau(cfg) == ~cfg.rf_fast
rayleigh_super_unimplemented(cfg) == (~cfg.rf_fast) /\ cfg.tau # 0
adiabatic_unimplemented(cfg) == cfg.adiabatic /\ cfg.kord_tm > 0

\* compute_preamble up to and including the fv_setup stencil
compute_preamble ==
    /\ pc = "preamble"
    /\ IF hydrostatic_unimplemented(config)
       THEN /\ Raise("Hydrostatic is not implemented")
            /\ UNCHANGED <<trace, written, lastWritten, calls, _dp1,
                           dp1_writers>>
       ELSE /\ Invoke("fv_setup", fv_setup_writes)
            /\ calls' = Append(calls, Args("fv_setup", state))
            /\ _dp1' = WrittenBy("fv_setup", state)
            /\ dp1_writers' = Append(dp1_writers, "fv_setup")
            /\ pc' = "preamble_checks"
            /\ UNCHANGED <<sink, outcome, error>>
    /\ UNCHANGED <<cfgVars, initVars, steps, state, loopVars>>
    /\ UNCHANGED <<delp, delp_start, dp1_log>>

\* the rest of compute_preamble: three checks, then the pt adjustment
compute_preamble_adjust ==
    /\ pc = "preamble_checks"
    /\ IF total_energy_unimplemented(config)
       THEN /\ Raise("compute total energy is not implemented")
            /\ UNCHANGED <<trace, written, lastWritten, calls>>
       ELSE IF rayleigh_super_unimplemented(config)
       THEN /\ Raise("Rayleigh_Super, called when rf_fast=False and tau !=0")
            /\ UNCHANGED <<trace, written, lastWritten, calls>>
       ELSE IF adiabatic_unimplemented(config)
       THEN /\ Raise("unimplemented namelist options adiabatic with positive kord_tm")
            /\ UNCHANGED <<trace, written, lastWritten, calls>>
       ELSE /\ Invoke("pt_adjust", pt_adjust_writes)
            /\ calls' = Append(calls, Args("pt_adjust", state))
            /\ pc' = "loop"
            /\ UNCHANGED <<sink, outcome, error>>
    /\ UNCHANGED <<cfgVars, initVars, steps, state, loopVars>>
    /\ UNCHANGED massVars

\* range(self._k_split) has another element
\* (loop_stops_early: faulty variant)
loop_stops_early(k, ks) == k < ks - 1
loop_continues(k, ks) == k < ks

\* last_step = k_split == self._k_split - 1
\* (is_last_step_off_by_one: faulty variant)
is_last_step_off_by_one(k, ks) == k = ks
is_last_step(k, ks) == k = ks - 1

\* head of the outer loop: next iteration, or leave the loop for wrapup
loop_head ==
    /\ pc = "loop"
    /\ IF loop_continues(k_split, config.k_split)
       THEN /\ n_map' = k_split + 1
            /\ last_step' = is_last_step(k_split, config.k_split)
            /\ lastStepLog' = Append(lastStepLog,
                                     is_last_step(k_split, config.k_split))
            /\ trace' = Append(trace, "_dyn")
            /\ delp_start' = delp[state]
            /\ pc' = "dyn_copy"
       ELSE /\ trace' = Append(trace, "wrapup")
            /\ pc' = "wrapup"
            /\ UNCHANGED <<n_map, last_step, lastStepLog, delp_start>>
    /\ UNCHANGED <<cfgVars, initVars, steps, state, sink, written,
                   lastWritten, calls, k_split, outcome, error>>
    /\ UNCHANGED <<delp, _dp1, dp1_writers, dp1_log>>

\* timestep=self._timestep / self._k_split handed to _dyn, and by _dyn to
\* the acoustic stepper
dyn_timestep(ts, ks) == Quotient(ts, ks)

\* self._timestep / self._k_split handed to tracer advection
\* (tracer_timestep_total: faulty variant handing over the full timestep)
tracer_timestep_total(ts, ks) == <<ts, 1>>
tracer_timestep(ts, ks) == Quotient(ts, ks)

\* self._timestep / self._k_split handed to the remap
remap_timestep(ts, ks) == Quotient(ts, ks)

\* _dyn: snapshot delp into dp1
\* (dyn_copy_swapped: faulty variant copying dp1 into delp)
dyn_copy_swapped ==
    /\ pc = "dyn_copy"
    /\ Invoke("copy_stencil", {"delp"})
    /\ calls' = Append(calls, Args("copy_stencil", state))
    /\ delp' = NewDelp(state)
    /\ pc' = "dyn_acoustic"
    /\ UNCHANGED <<cfgVars, initVars, steps, state, sink, loopVars, outcome,
                   error>>
    /\ UNCHANGED <<_dp1, delp_start, dp1_writers, dp1_log>>
dyn_copy ==
    /\ pc = "dyn_copy"
    /\ Invoke("copy_stencil", copy_stencil_writes)
    /\ calls' = Append(calls, Args("copy_stencil", state))
    /\ pc' = "dyn_acoustic"
    /\ UNCHANGED <<cfgVars, initVars, steps, state, sink, loopVars, outcome,
                   error>>
    /\ _dp1' = SnapshotOf(state)
    /\ dp1_writers' = Append(dp1_writers, "copy_stencil")
    /\ UNCHANGED <<delp, delp_start, dp1_log>>

\* _dyn: the acoustic stepper
\* (dyn_acoustic_twice: faulty variant calling the stepper twice)
dyn_acoustic_twice ==
    /\ pc = "dyn_acoustic"
    /\ trace' = trace \o <<"acoustic_dynamics", "acoustic_dynamics">>
    /\ written' = written \cup acoustic_dynamics_writes
    /\ lastWritten' = acoustic_dynamics_writes
    /\ calls' = calls \o
           <<[Args("acoustic_dynamics", state) EXCEPT
                  !.timestep = dyn_timestep(timestep, config.k_split),
                  !.n_map = n_map],
             [Args("acoustic_dynamics", state) EXCEPT
                  !.timestep = dyn_timestep(timestep, config.k_split),
                  !.n_map = n_map]>>
    /\ pc' = "dyn_tracer"
    /\ UNCHANGED <<cfgVars, initVars, steps, state, sink, loopVars, outcome,
                   error>>
    /\ dp1_log' = Append(dp1_log, Dp1Seen("acoustic_dynamics"))
    /\ delp' = NewDelp(state)
    /\ UNCHANGED <<_dp1, delp_start, dp1_writers>>
dyn_acoustic ==
    /\ pc = "dyn_acoustic"
    /\ Invoke("acoustic_dynamics", acoustic_dynamics_writes)
    /\ calls' = Append(calls,
           [Args("acoustic_dynamics", state) EXCEPT
                !.timestep = dyn_timestep(timestep, config.k_split),
                !.n_map = n_map])
    /\ pc' = "dyn_tracer"
    /\ UNCHANGED <<cfgVars, initVars, steps, state, sink, loopVars, outcome,
                   error>>
    /\ dp1_log' = Append(dp1_log, Dp1Seen("acoustic_dynamics"))
    /\ delp' = NewDelp(state)
    /\ UNCHANGED <<_dp1, delp_start, dp1_writers>>

\* _dyn: tracer advection if z_tracer; _dyn returns
\* (dyn_tracer_unconditional: faulty variant not testing z_tracer)
dyn_tracer_unconditional ==
    /\ pc = "dyn_tracer"
    /\ Invoke("tracer_advection", tracer_advection_writes)
    /\ calls' = Append(calls,
           [Args("tracer_advection", state) EXCEPT
                !.tracers = tracers,
                !.timestep = tracer_timestep(timestep, config.k_split)])
    /\ pc' = "remap"
    /\ UNCHANGED <<cfgVars, initVars, steps, state, sink, loopVars, outcome,
                   error>>
    /\ dp1_log' = Append(dp1_log, Dp1Seen("tracer_advection"))
    /\ UNCHANGED <<delp, _dp1, delp_start, dp1_writers>>
dyn_tracer ==
    /\ pc = "dyn_tracer"
    /\ IF config.z_tracer
       THEN /\ Invoke("tracer_advection", tracer_advection_writes)
            /\ calls' = Append(calls,
                   [Args("tracer_advection", state) EXCEPT
                        !.tracers = tracers,
                        !.timestep = tracer_timestep(timestep,
                                                     config.k_split)])
            /\ dp1_log' = Append(dp1_log, Dp1Seen("tracer_advection"))
       ELSE UNCHANGED <<trace, written, lastWritten, calls, dp1_log>>
    /\ pc' = "remap"
    /\ UNCHANGED <<cfgVars, initVars, steps, state, sink, loopVars, outcome,
                   error>>
    /\ UNCHANGED <<delp, _dp1, delp_start, dp1_writers>>

\* self.grid_indexing.domain[2] > 4
\* (remap_enabled_inclusive: faulty variant)
remap_enabled_inclusive(npz) == npz >= MinRemapLevels
remap_enabled(npz) == npz > MinRemapLevels

\* the remap of this iteration, if enabled; then post_remap or next iteration
\* (remap_then_post_remap: faulty variant entering post_remap after every
\* remap)
remap_then_post_remap ==
    /\ pc = "remap"
    /\ IF remap_enabled(config.npz)
       THEN /\ trace' = trace \o <<"lagrangian_to_eulerian", "post_remap">>
            /\ pc' = "post_remap"
            /\ k_split' = k_split
            /\ written' = written \cup lagrangian_to_eulerian_writes
            /\ lastWritten' = lagrangian_to_eulerian_writes
            /\ calls' = Append(calls,
                   [Args("lagrangian_to_eulerian", state) EXCEPT
                        !.tracers = tracers,
                        !.timestep = remap_timestep(timestep, config.k_split),
                        !.bdt = timestep])
            /\ dp1_log' = Append(dp1_log, Dp1Seen("lagrangian_to_eulerian"))
            /\ delp' = NewDelp(state)
            /\ _dp1' = WrittenBy("lagrangian_to_eulerian", state)
       ELSE /\ pc' = "loop"
            /\ k_split' = k_split + 1
            /\ UNCHANGED <<trace, written, lastWritten, calls, dp1_log,
                           delp, _dp1>>
    /\ UNCHANGED <<cfgVars, initVars, steps, state, sink, n_map, last_step,
                   lastStepLog, outcome, error>>
    /\ UNCHANGED <<delp_start, dp1_writers>>
remap ==
    /\ pc = "remap"
    /\ IF remap_enabled(config.npz)
       THEN /\ IF last_step
               THEN /\ trace' = trace \o <<"lagrangian_to_eulerian",
                                            "post_remap">>
                    /\ pc' = "post_remap"
                    /\ k_split' = k_split
               ELSE /\ trace' = Append(trace, "lagrangian_to_eulerian")
                    /\ pc' = "loop"
                    /\ k_split' = k_split + 1
            /\ written' = written \cup lagrangian_to_eulerian_writes
            /\ lastWritten' = lagrangian_to_eulerian_writes
            /\ calls' = Append(calls,
                   [Args("lagrangian_to_eulerian", state) EXCEPT
                        !.tracers = tracers,
                        !.timestep = remap_timestep(timestep, config.k_split),
                        !.bdt = timestep])
            /\ dp1_log' = Append(dp1_log, Dp1Seen("lagrangian_to_eulerian"))
            /\ delp' = NewDelp(state)
            /\ _dp1' = WrittenBy("lagrangian_to_eulerian", state)
       ELSE /\ pc' = "loop"
            /\ k_split' = k_split + 1
            /\ UNCHANGED <<trace, written, lastWritten, calls, dp1_log,
                           delp, _dp1>>
    /\ UNCHANGED <<cfgVars, initVars, steps, state, sink, n_map, last_step,
                   lastStepLog, outcome, error>>
    /\ UNCHANGED <<delp_start, dp1_writers>>

\* post_remap: omga = delp / delz * w unless hydrostatic
post_remap ==
    /\ pc = "post_remap"
    /\ IF ~config.hydrostatic
       THEN /\ Invoke("set_omega", set_omega_writes)
            /\ calls' = Append(calls, Args("set_omega", state))
       ELSE UNCHANGED <<trace, written, lastWritten, calls>>
    /\ pc' = "post_remap_damping"
    /\ UNCHANGED <<cfgVars, initVars, steps, state, sink, loopVars, outcome,
                   error>>
    /\ UNCHANGED massVars

\* 0.18 * da_min, in hundredths of the unit of da_min
hyperdiffusion_coefficient(dm) == 18 * dm

\* post_remap: halo update of omga and hyperdiffusion if nf_omega > 0;
\* post_remap returns and the iteration ends
post_remap_damping ==
    /\ pc = "post_remap_damping"
    /\ IF config.nf_omega > 0
       THEN /\ trace' = trace \o <<"omega_halo_update", "hyperdiffusion">>
            /\ written' = written \cup omega_halo_writes
                                  \cup hyperdiffusion_writes
            /\ lastWritten' = omega_halo_writes \cup hyperdiffusion_writes
            /\ calls' = calls \o
                   <<Args("omega_halo_update", halo_state),
                     [Args("hyperdiffusion", state) EXCEPT
                          !.coef = hyperdiffusion_coefficient(da_min)]>>
       ELSE UNCHANGED <<trace, written, lastWritten, calls>>
    /\ k_split' = k_split + 1
    /\ pc' = "loop"
    /\ UNCHANGED <<cfgVars, initVars, steps, state, sink, n_map, last_step,
                   lastStepLog, outcome, error>>
    /\ UNCHANGED massVars

\* wrapup: negative-tracer adjustment, then cube-to-latlon; _compute returns
\* (wrapup_adjusting_pt: faulty variant that also runs the pt adjustment)
wrapup_adjusting_pt ==
    /\ pc = "wrapup"
    /\ trace' = trace \o <<"adjust_tracer_mixing_ratio", "cubed_to_latlon",
                            "pt_adjust">>
    /\ written' = written \cup adjust_tracer_writes
                          \cup cubed_to_latlon_writes \cup pt_adjust_writes
    /\ lastWritten' = adjust_tracer_writes \cup cubed_to_latlon_writes
                                           \cup pt_adjust_writes
    /\ calls' = calls \o <<Args("adjust_tracer_mixing_ratio", state),
                            Args("cubed_to_latlon", state),
                            Args("pt_adjust", state)>>
    /\ pc' = "checkpoint_out"
    /\ UNCHANGED <<cfgVars, initVars, steps, state, sink, loopVars, outcome,
                   error>>
    /\ UNCHANGED massVars
wrapup ==
    /\ pc = "wrapup"
    /\ trace' = trace \o <<"adjust_tracer_mixing_ratio", "cubed_to_latlon">>
    /\ written' = written \cup adjust_tracer_writes
                          \cup cubed_to_latlon_writes
    /\ lastWritten' = adjust_tracer_writes \cup cubed_to_latlon_writes
    /\ calls' = calls \o <<Args("adjust_tracer_mixing_ratio", state),
                            Args("cubed_to_latlon", state)>>
    /\ pc' = "checkpoint_out"
    /\ UNCHANGED <<cfgVars, initVars, steps, state, sink, loopVars, outcome,
                   error>>
    /\ UNCHANGED massVars

\* the "Out" checkpoint; step_dynamics returns
step_dynamics_out ==
    /\ pc = "checkpoint_out"
    /\ sink' = _checkpoint_fvdynamics(sink, "Out")
    /\ outcome' = "returned"
    /\ pc' = "idle"
    /\ UNCHANGED <<cfgVars, initVars, steps, state, trace, written,
                   lastWritten, calls, loopVars, error>>
    /\ UNCHANGED massVars

Next ==
    \/ init_checkpointer
    \/ init_assert
    \/ init_build
    \/ init_finish
    \/ step_dynamics
    \/ _compute
    \/ compute_preamble
    \/ compute_preamble_adjust
    \/ loop_head
    \/ dyn_copy
    \/ dyn_acoustic
    \/ dyn_tracer
    \/ remap
    \/ post_remap
    \/ post_remap_damping
    \/ wrapup
    \/ step_dynamics_out

Spec == Init /\ [][Next]_vars

\* ======================================================================
\* The stencils init_pfull and pt_adjust, run on their own
\* ======================================================================
\* hybrid-coordinate coefficients: ak in Pa, bk in halves (1 stands for 0.5)
AkValues == {0, 80000, 100000}
BkHalves == {0, 1, 2}
PRefValues == {100000, 101300}

\* ak + bk * p_ref at one interface
interface_pressure(a, b, p_ref) == a + (b * p_ref) \div 2

\* ph1 and ph2 of init_pfull at every level: ph1 from the level's own
\* interface, ph2 from the next one (ak[1], bk[1] are offsets in k)
\* (init_pfull_same_interface: faulty variant reading ak[0], bk[0] twice)
init_pfull_same_interface(ak, bk, p_ref) ==
    [ph1 |-> [i \in 1..(Len(ak) - 1) |->
                  interface_pressure(ak[i], bk[i], p_ref)],
     ph2 |-> [i \in 1..(Len(ak) - 1) |->
                  interface_pressure(ak[i], bk[i], p_ref)]]
init_pfull(ak, bk, p_ref) ==
    [ph1 |-> [i \in 1..(Len(ak) - 1) |->
                  interface_pressure(ak[i], bk[i], p_ref)],
     ph2 |-> [i \in 1..(Len(ak) - 1) |->
                  interface_pressure(ak[i + 1], bk[i + 1], p_ref)]]

\* fixed-point numbers with two decimals: One stands for 1.0; every
\* multiplication and division rounds (towards minus infinity)
One == 100
Mul(a, b) == (a * b) \div One
Div(a, b) == (a * One) \div b

\* pt = pt * (1.0 + dp1) * (1.0 - q_con) / pkz, evaluated left to right
\* (pt_adjust_times_pkz: faulty variant multiplying by pkz)
pt_adjust_times_pkz(pkz, dp1, q_con, pt) ==
    Mul(Mul(Mul(pt, One + dp1), One - q_con), pkz)
pt_adjust(pkz, dp1, q_con, pt) ==
    Div(Mul(Mul(pt, One + dp1), One - q_con), pkz)

PtValues == {0, 25050, 30000}
PkzValues == {50, 100, 125, 200}
Dp1Values == {0, 5}
QConValues == {0, 10}

mainVars == <<config, checkpointer, pc, built, call_checkpointer,
              self_checkpointer, acoustic_checkpointer, steps, sink, trace,
              written, k_split, n_map, last_step, lastStepLog, outcome,
              error, da_min, timestep, tracers, halo_state, state,
              lastWritten, calls,
              delp, _dp1, delp_start, dp1_writers, dp1_log>>

\* the configuration the stencils are built under
StencilConfig ==
    [moist_phys |-> TRUE, nwat |-> 6, inline_q |-> FALSE,
     hydrostatic |-> FALSE, consv_te |-> 0, rf_fast |-> TRUE, tau |-> 0,
     adiabatic |-> FALSE, kord_tm |-> 0, z_tracer |-> TRUE, nf_omega |-> 1,
     k_split |-> 1, npz |-> MaxNpz]

InitStencils ==
    /\ config = StencilConfig
    /\ checkpointer = "none"
    /\ pc = "new"
    /\ built = <<>>
    /\ call_checkpointer = FALSE
    /\ self_checkpointer = "unset"
    /\ acoustic_checkpointer = "unset"
    /\ steps = 0
    /\ sink = <<>>
    /\ trace = <<>>
    /\ written = {}
    /\ k_split = 0
    /\ n_map = 0
    /\ last_step = FALSE
    /\ lastStepLog = <<>>
    /\ outcome = "none"
    /\ error = "none"
    /\ da_min = 0
    /\ timestep = 0
    /\ tracers = "unset"
    /\ halo_state = "unset"
    /\ state = "none"
    /\ lastWritten = {}
    /\ calls = <<>>
    /\ delp = [obj \in StateObjects |-> 0]
    /\ _dp1 = NoDp1
    /\ delp_start = 0
    /\ dp1_writers = <<>>
    /\ dp1_log = <<>>
    /\ pf = NoPfull
    /\ pta = NoPtAdjust

\* pfull_stencil(self._ak, self._bk, pfull, self.config.p_ref)
run_init_pfull ==
    /\ ~pf.done
    /\ \E n \in 2..MaxInterfaces :
       \E ak \in [1..n -> AkValues], bk \in [1..n -> BkHalves],
          p_ref \in PRefValues :
           pf' = [ak |-> ak, bk |-> bk, p_ref |-> p_ref,
                  ph1 |-> init_pfull(ak, bk, p_ref).ph1,
                  ph2 |-> init_pfull(ak, bk, p_ref).ph2,
                  done |-> TRUE]
    /\ UNCHANGED <<mainVars, pta>>

\* the first run of self._pt_adjust_stencil(pkz, dp1, q_con, pt) on some fields
run_pt_adjust ==
    /\ pta.runs = 0
    /\ \E pkz \in PkzValues, dp1 \in Dp1Values, q_con \in QConValues,
          pt \in PtValues :
           pta' = [pkz |-> pkz, dp1 |-> dp1, q_con |-> q_con,
                   pt |-> pt_adjust(pkz, dp1, q_con, pt), pt_prev |-> pt,
                   runs |-> 1]
    /\ UNCHANGED <<mainVars, pf>>

\* a further run on the same fields (as in the next step_dynamics call)
rerun_pt_adjust ==
    /\ pta.runs > 0
    /\ pta.runs < MaxRuns
    /\ pta' = [pta EXCEPT
                   !.pt = pt_adjust(pta.pkz, pta.dp1, pta.q_con, pta.pt),
                   !.pt_prev = pta.pt,
                   !.runs = pta.runs + 1]
    /\ UNCHANGED <<mainVars, pf>>

NextStencils ==
    \/ run_init_pfull
    \/ run_pt_adjust
    \/ rerun_pt_adjust

SpecStencils == InitStencils /\ [][NextStencils]_vars


\* ======================================================================
\* Properties
\* ======================================================================
Count(seq, x) == Cardinality({i \in 1..Len(seq) : seq[i] = x})
Occurs(seq, x) == \E i \in 1..Len(seq) : seq[i] = x

\* entries of trace that are method entries, not stage invocations
MethodEntries == {"compute_preamble", "_dyn", "post_remap", "wrapup"}
StageCalls(seq) == SelectSeq(seq, LAMBDA e : e \notin MethodEntries)

\* __init__ has returned a DynamicalCore
Constructed ==
    pc \notin {"new", "init_assert", "init_build", "init_finish", "failed"}

\* the current call is past a compute_preamble that returned
PreambleReturned ==
    \/ pc \in {"loop", "dyn_copy", "dyn_acoustic", "dyn_tracer", "remap",
               "post_remap", "post_remap_damping", "wrapup",
               "checkpoint_out"}
    \/ outcome = "returned"

\* stages and methods of the outer loop
LoopEvents ==
    {"_dyn", "copy_stencil", "acoustic_dynamics", "tracer_advection",
     "lagrangian_to_eulerian", "post_remap", "set_omega",
     "omega_halo_update", "hyperdiffusion"}
WrapupEvents == {"wrapup", "adjust_tracer_mixing_ratio", "cubed_to_latlon"}

\* ---------------------------------------------------------------- C1
\* C1 (as stated): every step_dynamics call with a sink attached, once it
\* has ended, has delivered exactly the two calls "FVDynamics-In",
\* "FVDynamics-Out" to the sink.
C1_Original ==
    (checkpointer = "sink" /\ outcome # "none")
        => sink = <<"FVDynamics-In", "FVDynamics-Out">>

\* C1 (amended): with a sink attached, a step_dynamics call that returns
\* has delivered exactly "FVDynamics-In" then "FVDynamics-Out"; a call in
\* which compute_preamble raises has delivered only "FVDynamics-In"; while
\* the call runs only "In" has been delivered; and between the "In" call
\* and the start of _compute no stage has run and no field was written.
C1_InThenOut ==
    checkpointer = "sink" =>
        /\ outcome = "returned"
               => sink = <<"FVDynamics-In", "FVDynamics-Out">>
        /\ outcome = "raised" => sink = <<"FVDynamics-In">>
        /\ (steps > 0 /\ outcome = "none") => sink = <<"FVDynamics-In">>
        /\ pc = "compute" => (trace = <<>> /\ written = {})

C1_Witness ==
    /\ checkpointer = "sink"
    /\ outcome = "returned"
    /\ steps = 2
    /\ sink = <<"FVDynamics-In", "FVDynamics-Out">>

\* ---------------------------------------------------------------- C2
C2_Rejected(cfg) ==
    \/ cfg.hydrostatic
    \/ cfg.consv_te > 0
    \/ (~cfg.rf_fast /\ cfg.tau # 0)
    \/ (cfg.adiabatic /\ cfg.kord_tm > 0)

\* C2: compute_preamble raises exactly in the configurations with
\* hydrostatic, consv_te > 0, (not rf_fast and tau != 0) or (adiabatic and
\* kord_tm > 0); in every other configuration it returns having run
\* fv_setup and then pt_adjust, in that order, and nothing else.
C2_PreambleRejectsExactly ==
    /\ outcome = "raised"
           => (C2_Rejected(config) /\ ~Occurs(trace, "pt_adjust"))
    /\ PreambleReturned
           => /\ ~C2_Rejected(config)
              /\ SubSeq(trace, 1, 3)
                     = <<"compute_preamble", "fv_setup", "pt_adjust">>
              /\ Count(trace, "fv_setup") = 1
              /\ Count(trace, "pt_adjust") = 1

C2_Witness ==
    /\ outcome = "raised"
    /\ ~config.hydrostatic
    /\ config.consv_te = 0
    /\ config.rf_fast
    /\ config.adiabatic /\ config.kord_tm > 0

\* ---------------------------------------------------------------- C3
\* C3 (as stated): whenever compute_preamble rejects the configuration, no
\* stage has run and no state field or temporary was written since
\* step_dynamics was entered.
C3_NoPartialExecution ==
    outcome = "raised" => (StageCalls(trace) = <<>> /\ written = {})

\* ---------------------------------------------------------------- C4
\* C4 (as stated): no DynamicalCore is constructed in a configuration
\* with tracer transport (z_tracer) disabled while NQ is nonzero.
C4_TracerTransportRequired ==
    Constructed => ~(~config.z_tracer /\ NQ # 0)

\* ---------------------------------------------------------------- C5
C5_StencilsAndCollaborators ==
    {"tracer_advection", "pfull_stencil", "pfull_stencil_run",
     "fv_setup_stencil", "pt_adjust_stencil", "set_omega_stencil",
     "copy_stencil", "acoustic_dynamics", "hyperdiffusion",
     "cubed_to_latlon", "adjust_tracer_mixing_ratio",
     "lagrangian_to_eulerian", "omega_halo_updater"}

\* C5: with moist_phys false or nwat != 6 construction never gets past the
\* asserts, and when it has failed no stencil was built or run and no
\* collaborator was created.
C5_AssertsBeforeBuild ==
    (~config.moist_phys \/ config.nwat # 6) =>
        /\ pc \in {"new", "init_assert", "failed"}
        /\ \A i \in 1..Len(built) : built[i] \notin C5_StencilsAndCollaborators
        /\ acoustic_checkpointer = "unset"
        /\ trace = <<>> /\ written = {}
        /\ pc = "failed" => error \in
               {"fvsetup is only implemented for moist_phys=true",
                "Only nwat=6 has been implemented and tested"}

C5_Witness ==
    /\ pc = "failed"
    /\ config.moist_phys
    /\ config.nwat # 6
    /\ error = "Only nwat=6 has been implemented and tested"

\* ---------------------------------------------------------------- C6
\* C6: with hydrostatic set (moist_phys, nwat = 6, not inline_q)
\* construction does not fail, no step_dynamics call returns or gets past
\* compute_preamble, and each call ends with "Hydrostatic is not
\* implemented" raised before any stage ran or any field was written.
C6_HydrostaticFailsInPreamble ==
    (config.hydrostatic /\ config.moist_phys /\ config.nwat = 6
     /\ ~config.inline_q) =>
        /\ pc # "failed"
        /\ ~PreambleReturned
        /\ pc # "preamble_checks"
        /\ outcome = "raised"
               => /\ error = "Hydrostatic is not implemented"
                  /\ trace = <<"compute_preamble">>
                  /\ written = {}

C6_Witness ==
    /\ config.hydrostatic
    /\ Constructed
    /\ steps = 1
    /\ outcome = "raised"
    /\ error = "Hydrostatic is not implemented"

\* ---------------------------------------------------------------- C7
C7_LastStepOnce ==
    /\ Len(lastStepLog) = config.k_split
    /\ Count(lastStepLog, TRUE) = 1
    /\ \A i \in 1..Len(lastStepLog) : lastStepLog[i] = (i = config.k_split)

\* C7 (as stated): in every _compute call (with k_split >= 1, so that
\* iteration k_split exists), once it has ended, last_step was true exactly
\* once, on iteration k_split, and false before.
C7_Original ==
    (outcome # "none" /\ config.k_split >= 1) => C7_LastStepOnce

\* C7 (amended): in a _compute call that completes with k_split >= 1,
\* last_step was true exactly once, on iteration k = k_split, and false on
\* every earlier iteration; in every call, an iteration has last_step true
\* only if it is iteration k_split.
C7_LastStepOnFinalIteration ==
    /\ \A i \in 1..Len(lastStepLog) : lastStepLog[i] = (i = config.k_split)
    /\ pc \in {"dyn_copy", "dyn_acoustic", "dyn_tracer", "remap",
               "post_remap", "post_remap_damping"}
           => last_step = (n_map = config.k_split)
    /\ (outcome = "returned" /\ config.k_split >= 1) => C7_LastStepOnce

C7_Witness ==
    /\ outcome = "returned"
    /\ config.k_split = 2
    /\ lastStepLog = <<FALSE, TRUE>>

\* ---------------------------------------------------------------- C8
\* C8: with at most 4 vertical levels the remap, post_remap, the omga
\* recomputation, the omga halo exchange and hyperdiffusion are never
\* invoked, whatever k_split is, and a call that returns has run wrapup.
C8_NoRemapOnShallowGrid ==
    config.npz <= 4 =>
        /\ \A e \in {"lagrangian_to_eulerian", "post_remap", "set_omega",
                     "omega_halo_update", "hyperdiffusion"} :
               ~Occurs(trace, e)
        /\ pc \notin {"post_remap", "post_remap_damping"}
        /\ outcome = "returned" => Occurs(trace, "wrapup")

C8_Witness ==
    /\ config.npz <= 4
    /\ config.k_split = 2
    /\ outcome = "returned"
    /\ Count(trace, "acoustic_dynamics") = 2

\* ---------------------------------------------------------------- C9
\* C9 (as stated): every step_dynamics call, once it has ended, has run
\* wrapup exactly once.
C9_Original ==
    outcome # "none" => Count(trace, "wrapup") = 1

\* C9 (amended): a step_dynamics call in which compute_preamble does not
\* raise runs wrapup exactly once, after all k_split iterations of the
\* outer loop (for every k_split, including 0 and 1); a call in which
\* compute_preamble raises does not run wrapup.
C9_WrapupOnceAfterLoop ==
    /\ Count(trace, "wrapup") <= 1
    /\ pc \in {"wrapup", "checkpoint_out"} => k_split = config.k_split
    /\ outcome = "raised" => ~Occurs(trace, "wrapup")
    /\ outcome = "returned" =>
           /\ Count(trace, "wrapup") = 1
           /\ Count(trace, "adjust_tracer_mixing_ratio") = 1
           /\ Count(trace, "cubed_to_latlon") = 1
           /\ Count(trace, "_dyn") = config.k_split
           /\ \A i, j \in 1..Len(trace) :
                  (trace[i] \in LoopEvents /\ trace[j] \in WrapupEvents)
                      => i < j

C9_Witness ==
    /\ outcome = "returned"
    /\ config.k_split = 1
    /\ Count(trace, "wrapup") = 1

\* ---------------------------------------------------------------- C10
\* C10: when compute_preamble raises, the call has run no outer-loop
\* iteration, no wrapup, has not emitted "FVDynamics-Out", has entered
\* compute_preamble once, and the error is with the caller.
C10_ErrorAbortsTimestep ==
    outcome = "raised" =>
        /\ \A i \in 1..Len(trace) :
               trace[i] \notin (LoopEvents \cup WrapupEvents)
        /\ ~Occurs(sink, "FVDynamics-Out")
        /\ Count(trace, "compute_preamble") = 1
        /\ Count(trace, "fv_setup") <= 1
        /\ error # "none"
        /\ pc = "idle"

C10_Witness ==
    /\ outcome = "raised"
    /\ checkpointer = "sink"
    /\ error = "compute total energy is not implemented"
    /\ Occurs(trace, "fv_setup")

\* ---------------------------------------------------------------- C11
\* C11 (as stated): putting the no-op sink in the place of an active one
\* changes nothing but the checkpoint calls.  No stage and no argument of a
\* stage depends on the sink, so the two runs agree exactly if every
\* collaborator that is handed a sink is handed the one the orchestrator
\* selected for itself (the no-op sink when none is attached): the
\* acoustic stepper's checkpointer argument is self.checkpointer.
C11_NullObjectSubstitution ==
    acoustic_checkpointer # "unset"
        => acoustic_checkpointer = self_checkpointer

C13_Example ==
    /\ pf.done
    /\ pf.ak = <<100000, 80000>>
    /\ pf.bk = <<0, 1>>
    /\ pf.p_ref = 100000

\* C13 (as stated): with ak = [100000, 80000], bk = [0, 0.5] and
\* p_ref = 100000, level 0 has ph1 = 100000 and ph2 = 120000.
C13_Original ==
    C13_Example => (pf.ph1[1] = 100000 /\ pf.ph2[1] = 120000)

\* C13 (amended): with ak = [100000, 80000], bk = [0, 0.5] and
\* p_ref = 100000, level 0 has ph1 = ak[0] + bk[0]*p_ref = 100000 and
\* ph2 = ak[1] + bk[1]*p_ref = 130000.
C13_InterfacePressures ==
    C13_Example => (pf.ph1[1] = 100000 /\ pf.ph2[1] = 130000)

C13_Witness ==
    /\ C13_Example
    /\ pf.ph2[1] = 130000

\* ---------------------------------------------------------------- C14
C14_NoMoisture == pta.runs >= 1 /\ pta.dp1 = 0 /\ pta.q_con = 0

PostRemapStages == {"set_omega", "omega_halo_update", "hyperdiffusion"}

IsPrefix(s, t) == Len(s) <= Len(t) /\ SubSeq(t, 1, Len(s)) = s

\* what iteration k (1..k_split) of the outer loop is to run, in order
C15_Iteration(k, cfg) ==
    <<"_dyn", "copy_stencil", "acoustic_dynamics">>
    \o (IF cfg.z_tracer THEN <<"tracer_advection">> ELSE <<>>)
    \o (IF cfg.npz > 4 THEN <<"lagrangian_to_eulerian">> ELSE <<>>)
    \o (IF cfg.npz > 4 /\ k = cfg.k_split THEN <<"post_remap">> ELSE <<>>)

RECURSIVE C15_Iterations(_, _)
C15_Iterations(k, cfg) ==
    IF k > cfg.k_split THEN <<>>
    ELSE C15_Iteration(k, cfg) \o C15_Iterations(k + 1, cfg)

C15_Compute(cfg) ==
    <<"compute_preamble", "fv_setup", "pt_adjust">>
    \o C15_Iterations(1, cfg)
    \o <<"wrapup", "adjust_tracer_mixing_ratio", "cubed_to_latlon">>

\* C15: in a _compute whose preamble returned, what has run so far (the
\* stages inside post_remap left aside) is an initial part of: the
\* preamble, then for k = 1..k_split in turn the delp snapshot, the
\* acoustic stepper, tracer advection iff z_tracer, the remap iff
\* levels > 4, post_remap iff the remap ran and k = k_split, then wrapup;
\* and it is all of that once the call has returned.
C15_StageOrder ==
    PreambleReturned =>
        LET seen == SelectSeq(trace, LAMBDA e : e \notin PostRemapStages)
        IN  /\ IsPrefix(seen, C15_Compute(config))
            /\ outcome = "returned" => seen = C15_Compute(config)

C15_Witness ==
    /\ outcome = "returned"
    /\ config.k_split = 2
    /\ config.z_tracer
    /\ config.npz > 4
    /\ Count(trace, "tracer_advection") = 2
    /\ Count(trace, "post_remap") = 1

\* ---------------------------------------------------------------- C16
\* C16: every post_remap comes right after a remap, with nothing in
\* between, in the iteration whose number is k_split (that many _dyn
\* entries precede it), and so at most once per call.
C16_PostRemapAfterFinalRemap ==
    /\ Count(trace, "post_remap") <= 1
    /\ \A i \in 1..Len(trace) :
           trace[i] = "post_remap" =>
               /\ i > 1
               /\ trace[i - 1] = "lagrangian_to_eulerian"
               /\ Count(SubSeq(trace, 1, i), "_dyn") = config.k_split
               /\ config.npz > 4

C16_Witness ==
    /\ config.k_split = 2
    /\ Count(trace, "_dyn") = 2
    /\ Count(trace, "lagrangian_to_eulerian") = 2
    /\ Occurs(trace, "post_remap")
    /\ outcome = "returned"

\* ---------------------------------------------------------------- C17
\* post_remap of the current call has returned
PostRemapReturned ==
    /\ Occurs(trace, "post_remap")
    /\ pc \notin {"post_remap", "post_remap_damping"}

\* C17 (as stated): hyperdiffusion runs in post_remap iff nf_omega > 0,
\* with coefficient 0.18 * da_min; right before it comes the one halo
\* exchange of the call, of the omga that hyperdiffusion is about to read,
\* and right before that the recomputation of that same omga.
C17_HaloExchangeBeforeHyperdiffusion ==
    /\ Count(trace, "omega_halo_update") <= 1
    /\ PostRemapReturned =>
           (Occurs(trace, "hyperdiffusion") <=> config.nf_omega > 0)
    /\ \A i \in 1..Len(calls) :
           calls[i].stage = "hyperdiffusion" =>
               /\ config.nf_omega > 0
               /\ calls[i].coef = 18 * da_min
               /\ i > 2
               /\ calls[i - 1].stage = "omega_halo_update"
               /\ calls[i - 1].on = calls[i].on
               /\ calls[i - 2].stage = "set_omega"
               /\ calls[i - 2].on = calls[i].on

\* ---------------------------------------------------------------- C18
\* the sum of a sequence of fractions <<numerator, denominator>>
RECURSIVE SumOfFractions(_)
SumOfFractions(fs) ==
    IF fs = <<>> THEN <<0, 1>>
    ELSE LET f == Head(fs)
             r == SumOfFractions(Tail(fs))
         IN  <<f[1] * r[2] + r[1] * f[2], f[2] * r[2]>>

\* the sub-timesteps the acoustic stepper received in this call, in order
AcousticTimesteps ==
    LET acoustic == SelectSeq(calls,
                              LAMBDA e : e.stage = "acoustic_dynamics")
    IN  [i \in 1..Len(acoustic) |-> acoustic[i].timestep]

C19_Successful ==
    outcome = "returned" /\ config.k_split >= 1 /\ config.npz > 4

\* C19: in a call that returned, with k_split >= 1 and more than 4
\* levels, the acoustic stepper and the remap ran k_split times each,
\* tracer advection k_split times if z_tracer and never otherwise,
\* post_remap once, after the k_split-th remap and before wrapup; and
\* the "Out" checkpoint is emitted only when wrapup is through.
C19_StageCounts ==
    /\ C19_Successful =>
           /\ Count(trace, "acoustic_dynamics") = config.k_split
           /\ Count(trace, "lagrangian_to_eulerian") = config.k_split
           /\ Count(trace, "tracer_advection")
                  = (IF config.z_tracer THEN config.k_split ELSE 0)
           /\ Count(trace, "post_remap") = 1
           /\ Count(trace, "wrapup") = 1
           /\ \A i, j \in 1..Len(trace) :
                  (trace[i] = "post_remap" /\ trace[j] = "wrapup") =>
                      /\ i < j
                      /\ Count(SubSeq(trace, 1, i), "lagrangian_to_eulerian")
                             = config.k_split
    /\ Occurs(sink, "FVDynamics-Out") =>
           (trace # <<>> /\ trace[Len(trace)] = "cubed_to_latlon")

C19_Witness ==
    /\ C19_Successful
    /\ config.k_split = 2
    /\ ~config.z_tracer
    /\ Count(trace, "acoustic_dynamics") = 2
    /\ Occurs(sink, "FVDynamics-Out")

\* ---------------------------------------------------------------- C20
\* C20 (as stated): the tracer fields handed to tracer advection and to
\* the remap are those of the state passed to this step_dynamics call,
\* the state whose fields these stages and wrapup are handed, whichever
\* state object the call passes.
C20_TracersOfSteppedState ==
    /\ calls # <<>> => tracers = state
    /\ \A i \in 1..Len(calls) :
           /\ calls[i].stage \in {"tracer_advection",
                                   "lagrangian_to_eulerian"}
                  => (calls[i].tracers = state /\ calls[i].on = state)
           /\ calls[i].stage = "adjust_tracer_mixing_ratio"
                  => calls[i].on = state

\* ---------------------------------------------------------------- C21
\* C21: when the acoustic stepper of iteration k is invoked, dp1 is the
\* delp of the stepped state as it stood when iteration k began, and it
\* still is when tracer advection is invoked; the orchestrator has dp1
\* written by the moist-thermodynamics setup of the preamble and by the
\* snapshot that opens each iteration and by nothing else, so that at
\* the acoustic stepper, tracer advection and remap of iteration k its
\* last write is the snapshot of iteration k.
C21_Dp1IsDelpAtIterationStart ==
    /\ \A i \in 1..Len(dp1_writers) :
           dp1_writers[i] = (IF i = 1 THEN "fv_setup" ELSE "copy_stencil")
    /\ Len(dp1_writers) <= 1 + Count(trace, "_dyn")
    /\ \A i \in 1..Len(dp1_log) :
           LET e == dp1_log[i]
           IN  /\ e.writers = 1 + e.n_map
               /\ e.stage \in {"acoustic_dynamics", "tracer_advection"}
                      => e.dp1 = [from |-> "delp", of |-> e.on,
                                  v |-> e.delp_start]

C21_Witness ==
    /\ outcome = "returned"
    /\ config.k_split = 2
    /\ state = "s1"
    /\ \E i \in 1..Len(dp1_log) :
           /\ dp1_log[i].stage = "acoustic_dynamics"
           /\ dp1_log[i].n_map = 2
           /\ dp1_log[i].delp_start = 2
           /\ dp1_log[i].dp1 = [from |-> "delp", of |-> "s1", v |-> 2]
    /\ \E i \in 1..Len(dp1_log) :
           /\ dp1_log[i].stage = "lagrangian_to_eulerian"
           /\ dp1_log[i].n_map = 2

====
